---- MODULE Spec2Model ----
(***************************************************************************)
(* Order book snapshot parser and IOC market-order matching engine         *)
(* (src/src/lib.rs).                                                       *)
(*                                                                         *)
(* A Decimal is modelled as rust_decimal represents it: an integer         *)
(* mantissa m and a scale e, standing for m / 10^e.  Comparison is by      *)
(* value ("100.0" = "100"), the scale is kept for display.  The scale is   *)
(* capped by DecMaxScale (28 in rust_decimal); the mantissa is not capped. *)
(* The text handed to parse_order_book is modelled after the grammar has   *)
(* recognised it: per side, the list of (price token, quantity token)      *)
(* pairs in textual order, each token a sequence of characters.            *)
(***************************************************************************)
EXTENDS Integers, Sequences, FiniteSets, TLC

\* ------------------------------------------------------------------ bounds
\* most levels (bids plus asks) of an input of the matching specification
MaxLevels == 3
\* most levels (bids plus asks) of an input of the instrument specification
MaxInstrLevels == 2
\* most characters (bids list plus asks list) of a text of the grammar
\* specification
MaxListChars == 7
MaxFineLevels == 3
\* largest scale of a Decimal (28 in rust_decimal)
DecMaxScale == 3

\* ------------------------------------------------------------- Decimal
RECURSIVE Pow10(_)
Pow10(n) == IF n = 0 THEN 1 ELSE 10 * Pow10(n - 1)

Abs(n) == IF n < 0 THEN -n ELSE n
Max(a, b) == IF a >= b THEN a ELSE b

Dec(m, e) == [m |-> m, e |-> e]
DecZero == Dec(0, 0)

\* n / d rounded to the nearest integer, ties to even (d > 0)
RoundDiv(n, d) ==
    LET q == Abs(n) \div d
        r == Abs(n) % d
        up == (2 * r > d) \/ (2 * r = d /\ q % 2 = 1)
        mag == IF up THEN q + 1 ELSE q
    IN  IF n < 0 THEN -mag ELSE mag

\* mantissa of a at scale s >= a.e
Scaled(a, s) == a.m * Pow10(s - a.e)

DecEq(a, b) == Scaled(a, Max(a.e, b.e)) = Scaled(b, Max(a.e, b.e))
DecLt(a, b) == Scaled(a, Max(a.e, b.e)) < Scaled(b, Max(a.e, b.e))
DecLe(a, b) == Scaled(a, Max(a.e, b.e)) <= Scaled(b, Max(a.e, b.e))
DecGt(a, b) == DecLt(b, a)
DecGe(a, b) == DecLe(b, a)
DecIsZero(a) == a.m = 0

DecAdd(a, b) ==
    LET s == Max(a.e, b.e) IN Dec(Scaled(a, s) + Scaled(b, s), s)
DecSub(a, b) ==
    LET s == Max(a.e, b.e) IN Dec(Scaled(a, s) - Scaled(b, s), s)

\* the product has the sum of the scales; beyond DecMaxScale it is rounded
DecMul(a, b) ==
    LET s == a.e + b.e
    IN  IF s <= DecMaxScale THEN Dec(a.m * b.m, s)
        ELSE Dec(RoundDiv(a.m * b.m, Pow10(s - DecMaxScale)), DecMaxScale)

\* the quotient is exact when some scale up to DecMaxScale holds it, and is
\* rounded at DecMaxScale otherwise (b is not zero); at scale s its mantissa is
\* a.m * 10^(s + b.e - a.e) / b.m
DecDiv(a, b) ==
    LET num == IF b.m < 0 THEN -a.m ELSE a.m
        den == Abs(b.m)
        lo == Max(a.e - b.e, 0)
        exact == {s \in lo..DecMaxScale : (Abs(num) * Pow10(s + b.e - a.e)) % den = 0}
    IN  IF exact # {}
        THEN LET s == CHOOSE x \in exact : \A y \in exact : x <= y
             IN  Dec((num * Pow10(s + b.e - a.e)) \div den, s)
        ELSE Dec(RoundDiv(num * Pow10(DecMaxScale + b.e - a.e), den), DecMaxScale)

\* remainder of a by b, with the sign of a (b is not zero)
DecRem(a, b) ==
    LET s == Max(a.e, b.e)
        r == Abs(Scaled(a, s)) % Abs(Scaled(b, s))
    IN  Dec(IF a.m < 0 THEN -r ELSE r, s)

\* ------------------------------------------------------- number tokens
Digits == {"0", "1", "2", "3", "4", "5", "6", "7", "8", "9"}
DigitVal == ("0" :> 0) @@ ("1" :> 1) @@ ("2" :> 2) @@ ("3" :> 3) @@ ("4" :> 4)
            @@ ("5" :> 5) @@ ("6" :> 6) @@ ("7" :> 7) @@ ("8" :> 8) @@ ("9" :> 9)

RECURSIVE DigitsValue(_)
DigitsValue(ds) ==
    IF ds = <<>> THEN 0
    ELSE 10 * DigitsValue(SubSeq(ds, 1, Len(ds) - 1)) + DigitVal[ds[Len(ds)]]

\* Decimal::from_str_exact on a token of the grammar's number rule: the digits
\* give the mantissa, the digits after the point give the scale; more
\* fractional digits than a Decimal holds is an error (Underflow)
DecFromStrExact(tok) ==
    LET dots == {i \in 1..Len(tok) : tok[i] = "."}
        dot == IF dots = {} THEN Len(tok) + 1 ELSE CHOOSE i \in dots : TRUE
        int == SubSeq(tok, 1, dot - 1)
        frac == SubSeq(tok, dot + 1, Len(tok))
    IN  IF Len(frac) > DecMaxScale
        THEN [ok |-> FALSE, val |-> DecZero]
        ELSE [ok |-> TRUE, val |-> Dec(DigitsValue(int \o frac), Len(frac))]

\* ------------------------------------------------------------ results
\* Result<_, OrderBookError>: kind is "Ok", "Err" or "Panic" (the call aborts
\* instead of returning); err names the OrderBookError variant, a and b are
\* its payload
Res(kind, err, a, b) == [kind |-> kind, err |-> err, a |-> a, b |-> b]
Ok == Res("Ok", "", DecZero, DecZero)
Err(err, a, b) == Res("Err", err, a, b)
Panic == Res("Panic", "", DecZero, DecZero)

Level(price, quantity) == [price |-> price, quantity |-> quantity]
OrderBook(bids, asks) == [bids |-> bids, asks |-> asks]
EmptyBook == OrderBook(<<>>, <<>>)

Min(S) == CHOOSE x \in S : \A y \in S : x <= y

\* --------------------------------------------------- InstrumentConfig
\* the f64 arguments of InstrumentConfig::new that the model draws from
F64Inputs == {"NaN", "0.0", "0.5", "1.0", "2.0"}

\* Decimal::from_f64_retain: none for a float that is not finite
DecFromF64Retain(x) ==
    CASE x = "NaN" -> <<>>
      [] x = "0.0" -> <<Dec(0, 0)>>
      [] x = "0.5" -> <<Dec(5, 1)>>
      [] x = "1.0" -> <<Dec(1, 0)>>
      [] x = "2.0" -> <<Dec(2, 0)>>

UnwrapOrDefault(opt) == IF opt = <<>> THEN DecZero ELSE opt[1]

InstrumentConfigNew(tick_size, min_lot, lot_step) ==
    [tick_size |-> UnwrapOrDefault(DecFromF64Retain(tick_size)),
     min_lot |-> UnwrapOrDefault(DecFromF64Retain(min_lot)),
     lot_step |-> UnwrapOrDefault(DecFromF64Retain(lot_step))]

\* ------------------------------------------------------ parse_levels
\* parse_levels reading the quantity token as the price and the price token
\* as the quantity
RECURSIVE parse_levels_swapped(_)
parse_levels_swapped(toks) ==
    IF toks = <<>> THEN [res |-> Ok, levels |-> <<>>]
    ELSE LET price == DecFromStrExact(Head(toks)[2])
             quantity == DecFromStrExact(Head(toks)[1])
             rest == parse_levels_swapped(Tail(toks))
         IN  IF ~price.ok \/ ~quantity.ok
             THEN [res |-> Err("DecimalError", DecZero, DecZero), levels |-> <<>>]
             ELSE IF rest.res.kind # "Ok" THEN rest
             ELSE [res |-> Ok,
                   levels |-> <<Level(price.val, quantity.val)>> \o rest.levels]

\* the levels of one side in textual order, or DecimalError at the first
\* token (price before quantity) that does not convert
RECURSIVE parse_levels(_)
parse_levels(toks) ==
    IF toks = <<>> THEN [res |-> Ok, levels |-> <<>>]
    ELSE LET price == DecFromStrExact(Head(toks)[1])
             quantity == DecFromStrExact(Head(toks)[2])
             rest == parse_levels(Tail(toks))
         IN  IF ~price.ok \/ ~quantity.ok
             THEN [res |-> Err("DecimalError", DecZero, DecZero), levels |-> <<>>]
             ELSE IF rest.res.kind # "Ok" THEN rest
             ELSE [res |-> Ok,
                   levels |-> <<Level(price.val, quantity.val)>> \o rest.levels]

\* ------------------------------------------------ validate_book_logic
\* BidsCheck without its test for equal prices
BidsCheckNoDuplicate(bids) ==
    LET bad == {i \in 1..(Len(bids) - 1) : DecLt(bids[i].price, bids[i + 1].price)}
    IN  IF bad = {} THEN Ok
        ELSE Err("BidsUnsorted", bids[Min(bad) + 1].price, DecZero)

\* the first adjacent pair of bids that is equal or ascending decides
BidsCheck(bids) ==
    LET bad == {i \in 1..(Len(bids) - 1) :
                    \/ DecEq(bids[i].price, bids[i + 1].price)
                    \/ DecLt(bids[i].price, bids[i + 1].price)}
    IN  IF bad = {} THEN Ok
        ELSE LET i == Min(bad)
             IN  IF DecEq(bids[i].price, bids[i + 1].price)
                 THEN Err("DuplicatePrice", bids[i].price, DecZero)
                 ELSE Err("BidsUnsorted", bids[i + 1].price, DecZero)

\* AsksCheck testing the order, not strictly, before the equality
AsksCheckOrderFirst(asks) ==
    LET bad == {i \in 1..(Len(asks) - 1) : DecGe(asks[i].price, asks[i + 1].price)}
    IN  IF bad = {} THEN Ok
        ELSE Err("AsksUnsorted", asks[Min(bad) + 1].price, DecZero)

\* the first adjacent pair of asks that is equal or descending decides
AsksCheck(asks) ==
    LET bad == {i \in 1..(Len(asks) - 1) :
                    \/ DecEq(asks[i].price, asks[i + 1].price)
                    \/ DecGt(asks[i].price, asks[i + 1].price)}
    IN  IF bad = {} THEN Ok
        ELSE LET i == Min(bad)
             IN  IF DecEq(asks[i].price, asks[i + 1].price)
                 THEN Err("DuplicatePrice", asks[i].price, DecZero)
                 ELSE Err("AsksUnsorted", asks[i + 1].price, DecZero)

\* CrossCheck that lets the first bid equal the first ask
CrossCheckAllowsEqual(book) ==
    IF /\ book.bids # <<>>
       /\ book.asks # <<>>
       /\ DecGt(book.bids[1].price, book.asks[1].price)
    THEN Err("CrossedBook", book.bids[1].price, book.asks[1].price)
    ELSE Ok

\* the first bid at or above the first ask
CrossCheck(book) ==
    IF /\ book.bids # <<>>
       /\ book.asks # <<>>
       /\ DecGe(book.bids[1].price, book.asks[1].price)
    THEN Err("CrossedBook", book.bids[1].price, book.asks[1].price)
    ELSE Ok

validate_book_logic(book) ==
    IF BidsCheck(book.bids).kind # "Ok" THEN BidsCheck(book.bids)
    ELSE IF AsksCheck(book.asks).kind # "Ok" THEN AsksCheck(book.asks)
    ELSE CrossCheck(book)

\* ------------------------------------------- validate_instrument_rules
\* the three rules of one level, in the order of the code; % by a zero
\* Decimal aborts the call
LevelRules(level, cfg) ==
    IF DecIsZero(cfg.tick_size) THEN Panic
    ELSE IF ~DecIsZero(DecRem(level.price, cfg.tick_size))
    THEN Err("InvalidTickSize", level.price, cfg.tick_size)
    ELSE IF DecLt(level.quantity, cfg.min_lot)
    THEN Err("InvalidMinLot", level.quantity, cfg.min_lot)
    ELSE IF DecIsZero(cfg.lot_step) THEN Panic
    ELSE IF ~DecIsZero(DecRem(level.quantity, cfg.lot_step))
    THEN Err("InvalidLotStep", level.quantity, cfg.lot_step)
    ELSE Ok

validate_instrument_rules(book, cfg) ==
    LET all_levels == book.bids \o book.asks
        bad == {i \in 1..Len(all_levels) : LevelRules(all_levels[i], cfg).kind # "Ok"}
    IN  IF bad = {} THEN Ok ELSE LevelRules(all_levels[Min(bad)], cfg)

\* ---------------------------------------------------- parse_order_book
\* in: the recognised input; config: <<>> or <<cfg>>
parse_order_book(in, config) ==
    LET bids == parse_levels(in.bids)
        asks == parse_levels(in.asks)
        book == OrderBook(bids.levels, asks.levels)
        logic == validate_book_logic(book)
        rules == validate_instrument_rules(book, config[1])
    IN  IF bids.res.kind # "Ok" THEN [res |-> bids.res, book |-> EmptyBook]
        ELSE IF asks.res.kind # "Ok" THEN [res |-> asks.res, book |-> EmptyBook]
        ELSE IF logic.kind # "Ok" THEN [res |-> logic, book |-> EmptyBook]
        ELSE IF config # <<>> /\ rules.kind # "Ok" THEN [res |-> rules, book |-> EmptyBook]
        ELSE [res |-> Ok, book |-> book]

\* ------------------------------------------------------------- grammar
\* The text is a sequence of characters; a position is the index of the next
\* character to read, and 0 stands for a rule that does not match. No rule
\* matches from position 0, so a sequence of rules fails when one of them does.
WHITESPACE == {" ", "\t", "\r", "\n"}

\* the implicit whitespace between the parts of a rule that is not atomic
RECURSIVE SkipWhitespace(_, _)
SkipWhitespace(t, p) ==
    IF p >= 1 /\ p <= Len(t) /\ t[p] \in WHITESPACE THEN SkipWhitespace(t, p + 1) ELSE p

\* a literal of the grammar: the position after it
MatchLiteral(t, p, lit) ==
    IF p >= 1 /\ p + Len(lit) - 1 <= Len(t) /\ SubSeq(t, p, p + Len(lit) - 1) = lit
    THEN p + Len(lit) ELSE 0

\* ASCII_DIGIT*: the position after the digits
RECURSIVE DigitsEnd(_, _)
DigitsEnd(t, p) ==
    IF p >= 1 /\ p <= Len(t) /\ t[p] \in Digits THEN DigitsEnd(t, p + 1) ELSE p

\* integer = @{ ASCII_DIGIT+ }
MatchInteger(t, p) == IF DigitsEnd(t, p) > p THEN DigitsEnd(t, p) ELSE 0

\* ("." ~ integer)? after an integer that ends before position i
MatchFraction(t, i) ==
    IF MatchInteger(t, MatchLiteral(t, i, <<".">>)) # 0
    THEN MatchInteger(t, MatchLiteral(t, i, <<".">>))
    ELSE i

\* number = @{ integer ~ ("." ~ integer)? }
MatchNumber(t, p) == MatchFraction(t, MatchInteger(t, p))

\* "," and the whitespace around it, after a price that ends before position a
QuantityStart(t, a) ==
    SkipWhitespace(t, MatchLiteral(t, SkipWhitespace(t, a), <<",">>))

\* the level from p whose price ends before a and whose quantity is the text
\* from b0 up to b
LevelAt(t, p, a, b0, b) ==
    IF b = 0 THEN [pos |-> 0, level |-> <<>>]
    ELSE [pos |-> b, level |-> <<SubSeq(t, p, a - 1), SubSeq(t, b0, b - 1)>>]

\* level = { number ~ "," ~ number }: the position after it and its two tokens
MatchLevel(t, p) ==
    LevelAt(t, p, MatchNumber(t, p),
            QuantityStart(t, MatchNumber(t, p)),
            MatchNumber(t, QuantityStart(t, MatchNumber(t, p))))

\* "|" ~ level
MatchBarLevel(t, p) ==
    MatchLevel(t, SkipWhitespace(t, MatchLiteral(t, SkipWhitespace(t, p), <<"|">>)))

\* ("|" ~ level)*: as many repetitions as match, from position p
RECURSIVE MatchMoreLevels(_, _, _)
MatchMoreLevels(t, p, levels) ==
    IF MatchBarLevel(t, p).pos = 0 THEN [pos |-> p, levels |-> levels]
    ELSE MatchMoreLevels(t, MatchBarLevel(t, p).pos,
                         Append(levels, MatchBarLevel(t, p).level))

\* level_list = { (level)? ~ ("|" ~ level)* }: it matches at every position
MatchLevelList(t, p) ==
    IF MatchLevel(t, p).pos = 0 THEN MatchMoreLevels(t, p, <<>>)
    ELSE MatchMoreLevels(t, MatchLevel(t, p).pos, <<MatchLevel(t, p).level>>)

BidsIdentifier == <<"B", "I", "D", "S">>
AsksIdentifier == <<"A", "S", "K", "S">>

\* bids_side / asks_side = { identifier ~ ":" ~ level_list }
MatchSide(t, p, identifier) ==
    MatchLevelList(t,
        SkipWhitespace(t, MatchLiteral(t,
            SkipWhitespace(t, MatchLiteral(t, p, identifier)), <<":">>)))

\* ";" ~ asks_side after a bids_side that ends before position p
MatchAsksSide(t, p) ==
    MatchSide(t, SkipWhitespace(t, MatchLiteral(t, SkipWhitespace(t, p), <<";">>)),
              AsksIdentifier)

\* whether the two sides are the whole text, and the tokens of their levels
\* in textual order
OrderBookOf(t, bids, asks) ==
    [ok |-> asks.pos # 0 /\ SkipWhitespace(t, asks.pos) = Len(t) + 1,
     tree |-> [bids |-> bids.levels, asks |-> asks.levels]]

\* order_book = bids_side ~ ";" ~ asks_side, over the whole text
MatchOrderBook(t) ==
    OrderBookOf(t, MatchSide(t, 1, BidsIdentifier),
                MatchAsksSide(t, MatchSide(t, 1, BidsIdentifier).pos))

\* parse_order_book on a text: ParseError when the grammar does not match,
\* and the extraction and validation of the recognised levels otherwise
parse_order_book_text(t, config) ==
    IF MatchOrderBook(t).ok
    THEN parse_order_book(MatchOrderBook(t).tree, config)
    ELSE [res |-> Err("ParseError", DecZero, DecZero), book |-> EmptyBook]

\* ----------------------------------------------- execute_market_order
Position(side, quantity, entry_price) ==
    [side |-> side, quantity |-> quantity, entry_price |-> entry_price]

\* a removal that drops the last level instead of level i
RemoveLast(levels, i) ==
    SubSeq(levels, 1, Len(levels) - 1)

\* Vec::remove(i), i counted from 1
RemoveAt(levels, i) ==
    SubSeq(levels, 1, i - 1) \o SubSeq(levels, i + 1, Len(levels))

\* MatchLoop that forgets to reduce remaining_qty by a level consumed in full
RECURSIVE MatchLoopNoDecrement(_, _, _, _, _)
MatchLoopNoDecrement(levels, i, remaining_qty, total_cost, filled_qty) ==
    IF ~(i <= Len(levels) /\ DecGt(remaining_qty, DecZero))
    THEN [levels |-> levels, total_cost |-> total_cost, filled_qty |-> filled_qty]
    ELSE LET level == levels[i]
         IN  IF DecLe(level.quantity, remaining_qty)
             THEN MatchLoopNoDecrement(RemoveAt(levels, i), i,
                            remaining_qty,
                            DecAdd(total_cost, DecMul(level.price, level.quantity)),
                            DecAdd(filled_qty, level.quantity))
             ELSE MatchLoopNoDecrement(
                            [levels EXCEPT ![i].quantity = DecSub(@, remaining_qty)],
                            i + 1,
                            DecZero,
                            DecAdd(total_cost, DecMul(level.price, remaining_qty)),
                            DecAdd(filled_qty, remaining_qty))

\* MatchLoop that charges a level taken in part for its whole quantity
RECURSIVE MatchLoopFullCost(_, _, _, _, _)
MatchLoopFullCost(levels, i, remaining_qty, total_cost, filled_qty) ==
    IF ~(i <= Len(levels) /\ DecGt(remaining_qty, DecZero))
    THEN [levels |-> levels, total_cost |-> total_cost, filled_qty |-> filled_qty]
    ELSE LET level == levels[i]
         IN  IF DecLe(level.quantity, remaining_qty)
             THEN MatchLoopFullCost(RemoveAt(levels, i), i,
                            DecSub(remaining_qty, level.quantity),
                            DecAdd(total_cost, DecMul(level.price, level.quantity)),
                            DecAdd(filled_qty, level.quantity))
             ELSE MatchLoopFullCost(
                            [levels EXCEPT ![i].quantity = DecSub(@, remaining_qty)],
                            i + 1,
                            DecZero,
                            DecAdd(total_cost, DecMul(level.price, level.quantity)),
                            DecAdd(filled_qty, remaining_qty))

\* the while loop of execute_market_order, from index i (counted from 1) on
RECURSIVE MatchLoop(_, _, _, _, _)
MatchLoop(levels, i, remaining_qty, total_cost, filled_qty) ==
    IF ~(i <= Len(levels) /\ DecGt(remaining_qty, DecZero))
    THEN [levels |-> levels, total_cost |-> total_cost, filled_qty |-> filled_qty]
    ELSE LET level == levels[i]
         IN  IF DecLe(level.quantity, remaining_qty)
             THEN MatchLoop(RemoveAt(levels, i), i,
                            DecSub(remaining_qty, level.quantity),
                            DecAdd(total_cost, DecMul(level.price, level.quantity)),
                            DecAdd(filled_qty, level.quantity))
             ELSE MatchLoop([levels EXCEPT ![i].quantity = DecSub(@, remaining_qty)],
                            i + 1,
                            DecZero,
                            DecAdd(total_cost, DecMul(level.price, remaining_qty)),
                            DecAdd(filled_qty, remaining_qty))

\* the side of the book a market order of this side consumes
OppositeLevels(b, side) == IF side = "Buy" THEN b.asks ELSE b.bids

WithOppositeLevels(b, side, levels) ==
    IF side = "Buy" THEN [b EXCEPT !.asks = levels] ELSE [b EXCEPT !.bids = levels]

\* execute_market_order with the payload of its first error the wrong way round
execute_market_order_swapped(b, side, quantity) ==
    IF DecLe(quantity, DecZero)
    THEN [res |-> Err("NotEnoughLiquidity", DecZero, quantity),
          book |-> b, position |-> <<>>]
    ELSE LET out == MatchLoop(OppositeLevels(b, side), 1, quantity, DecZero, DecZero)
             after == WithOppositeLevels(b, side, out.levels)
         IN  IF DecEq(out.filled_qty, DecZero)
             THEN [res |-> Err("NotEnoughLiquidity", quantity, DecZero),
                   book |-> after, position |-> <<>>]
             ELSE [res |-> Ok, book |-> after,
                   position |-> <<Position(side, out.filled_qty,
                                           DecDiv(out.total_cost, out.filled_qty))>>]

\* the result, the book after the call and the position returned (<<>> on
\* failure)
execute_market_order(b, side, quantity) ==
    IF DecLe(quantity, DecZero)
    THEN [res |-> Err("NotEnoughLiquidity", quantity, DecZero),
          book |-> b, position |-> <<>>]
    ELSE LET out == MatchLoop(OppositeLevels(b, side), 1, quantity, DecZero, DecZero)
             after == WithOppositeLevels(b, side, out.levels)
         IN  IF DecEq(out.filled_qty, DecZero)
             THEN [res |-> Err("NotEnoughLiquidity", quantity, DecZero),
                   book |-> after, position |-> <<>>]
             ELSE [res |-> Ok, book |-> after,
                   position |-> <<Position(side, out.filled_qty,
                                           DecDiv(out.total_cost, out.filled_qty))>>]

\* ------------------------------------------------------ calculate_pnl
\* calculate_pnl marking a position at the side it was opened against
calculate_pnl_entry_side(pos, b) ==
    IF pos.side = "Buy"
    THEN IF b.asks = <<>> THEN <<>>
         ELSE <<DecMul(DecSub(b.asks[1].price, pos.entry_price), pos.quantity)>>
    ELSE IF b.bids = <<>> THEN <<>>
         ELSE <<DecMul(DecSub(pos.entry_price, b.bids[1].price), pos.quantity)>>

\* <<>> is none
calculate_pnl(pos, b) ==
    IF pos.side = "Buy"
    THEN IF b.bids = <<>> THEN <<>>
         ELSE <<DecMul(DecSub(b.bids[1].price, pos.entry_price), pos.quantity)>>
    ELSE IF b.asks = <<>> THEN <<>>
         ELSE <<DecMul(DecSub(pos.entry_price, b.asks[1].price), pos.quantity)>>

\* -------------------------------------------------------------- inputs
PriceTokens == {<<"1">>, <<"2">>, <<"2", ".", "0">>, <<"3">>}
QtyTokens == {<<"0">>, <<"1">>, <<"2">>}
\* a number of the grammar with one fractional digit more than a Decimal holds
LongToken == <<"1", ".">> \o [i \in 1..(DecMaxScale + 1) |-> "0"]
LevelTokens == (PriceTokens \X QtyTokens) \cup {<<LongToken, <<"1">>>>}

\* the numbers of bids and of asks of an input of at most n levels
LevelCounts(n) == {kj \in (0..n) \X (0..n) : kj[1] + kj[2] <= n}

\* the recognised inputs of kj[1] bids and kj[2] asks
Inputs(kj) == [bids : [1..kj[1] -> LevelTokens], asks : [1..kj[2] -> LevelTokens]]

\* the characters the level lists of the texts are drawn from
ListChars == {"1", ",", "|"}

\* level lists with whitespace and decimal points
SampleLists ==
    { <<"1", ".", "5", " ", ",", " ", "2">>,
      <<"1", " ", "1", ",", "1">>,
      <<"1", ".", ",", "1">>,
      <<"2", ",", "1", " ", "|", " ", "1", ",", "1">>,
      <<"|", " ", "1", ",", "1", ".", "0">>,
      <<"3", ",", "1", "|", "|", "4", ",", "1">> }

TextOf(bids, asks) ==
    BidsIdentifier \o <<":">> \o bids \o <<";">> \o AsksIdentifier \o <<":">> \o asks

\* the texts whose bids list has kj[1] characters and asks list kj[2]
Texts(kj) ==
    {TextOf(bids, asks) : bids \in [1..kj[1] -> ListChars], asks \in [1..kj[2] -> ListChars]}

SampleTexts == {TextOf(bids, asks) : bids \in SampleLists, asks \in SampleLists \cup {<<>>}}

\* a price with as many fractional digits as a Decimal holds
FinePriceToken ==
    <<"1", ".">> \o [i \in 1..(DecMaxScale - 1) |-> "0"] \o <<"1">>
FinePriceTokens == {<<"1">>, FinePriceToken, <<"2">>, <<"3">>}
FineQtyTokens == {<<"0", ".", "1">>, <<"1">>}
FineLevelTokens == FinePriceTokens \X FineQtyTokens

\* the recognised inputs of kj[1] bids and kj[2] asks with fine prices and
\* fractional quantities
FineInputs(kj) ==
    [bids : [1..kj[1] -> FineLevelTokens], asks : [1..kj[2] -> FineLevelTokens]]

Sides == {"Buy", "Sell"}
OrderQtys == {Dec(-1, 0), Dec(0, 0), Dec(1, 0), Dec(3, 0)}

InstrConfigs ==
    {InstrumentConfigNew(t, m, s) :
        t \in {"NaN", "1.0", "2.0"}, m \in {"0.0", "2.0"}, s \in {"0.0", "0.5", "2.0"}}

\* --------------------------------------------------------------- state
VARIABLES
    pc,        \* "start" before parse_order_book, "done" after it
    input,     \* what parse_order_book is handed: the text (SpecText) or the
               \* levels the grammar recognised in it (Spec, SpecInstr)
    config,    \* <<>> or <<the InstrumentConfig>> handed to parse_order_book
    parsed,    \* the result of parse_order_book
    book,      \* the OrderBook it returned, as mutated by the orders since
    order,     \* the side and quantity of the last execute_market_order whose
               \* result the caller took
    pre,       \* the book before that call
    ret,       \* the result of that call
    position,  \* <<>> or <<the Position held: the one the last such call that
               \* succeeded returned>>
    pnl        \* whether calculate_pnl ran on this position and book, and its value

vars == <<pc, input, config, parsed, book, order, pre, ret, position, pnl>>

NoCall == Res("None", "", DecZero, DecZero)
NoOrder == [side |-> "Buy", quantity |-> DecZero]
NoPnl == [done |-> FALSE, val |-> <<>>]

InitRest ==
    /\ pc = "start"
    /\ parsed = NoCall
    /\ book = EmptyBook
    /\ order = NoOrder
    /\ pre = EmptyBook
    /\ ret = NoCall
    /\ position = <<>>
    /\ pnl = NoPnl

Init ==
    /\ \E kj \in LevelCounts(MaxLevels) : input \in Inputs(kj)
    /\ config = <<>>
    /\ InitRest

InitInstr ==
    /\ \E kj \in LevelCounts(MaxInstrLevels) : input \in Inputs(kj)
    /\ config \in {<<c>> : c \in InstrConfigs}
    /\ InitRest

ParseOrderBook ==
    /\ pc = "start"
    /\ LET out == parse_order_book(input, config)
       IN  /\ parsed' = out.res
           /\ book' = out.book
    /\ pc' = "done"
    /\ UNCHANGED <<input, config, order, pre, ret, position, pnl>>

ExecuteMarketOrder ==
    /\ pc = "done"
    /\ parsed.kind = "Ok"
    /\ \E side \in Sides, quantity \in OrderQtys :
          LET out == execute_market_order(book, side, quantity)
          IN  /\ order' = [side |-> side, quantity |-> quantity]
              /\ pre' = book
              /\ book' = out.book
              /\ ret' = out.res
              /\ position' = IF out.res.kind = "Ok" THEN out.position ELSE position
    /\ pnl' = NoPnl
    /\ UNCHANGED <<pc, input, config, parsed>>

CalculatePnl ==
    /\ pc = "done"
    /\ position # <<>>
    /\ ~pnl.done
    /\ pnl' = [done |-> TRUE, val |-> calculate_pnl(position[1], book)]
    /\ UNCHANGED <<pc, input, config, parsed, book, order, pre, ret, position>>

Next == ParseOrderBook \/ ExecuteMarketOrder \/ CalculatePnl

Spec == Init /\ [][Next]_vars

SpecInstr == InitInstr /\ [][Next]_vars

InitText ==
    /\ \/ \E kj \in LevelCounts(MaxListChars) : input \in Texts(kj)
       \/ input \in SampleTexts
    /\ config = <<>>
    /\ InitRest

\* parse_order_book, from the text
ParseText ==
    /\ pc = "start"
    /\ LET out == parse_order_book_text(input, config)
       IN  /\ parsed' = out.res
           /\ book' = out.book
    /\ pc' = "done"
    /\ UNCHANGED <<input, config, order, pre, ret, position, pnl>>

SpecText == InitText /\ [][ParseText]_vars

InitFine ==
    /\ \E kj \in LevelCounts(MaxFineLevels) : input \in FineInputs(kj)
    /\ config = <<>>
    /\ InitRest

\* execute_market_order by a caller that holds a position and keeps it: the
\* book changes, the result of the call is dropped
FurtherOrder ==
    /\ pc = "done"
    /\ position # <<>>
    /\ \E side \in Sides, quantity \in OrderQtys :
          book' = execute_market_order(book, side, quantity).book
    /\ pnl' = NoPnl
    /\ UNCHANGED <<pc, input, config, parsed, order, pre, ret, position>>

NextFine == ParseOrderBook \/ ExecuteMarketOrder \/ FurtherOrder \/ CalculatePnl

SpecFine == InitFine /\ [][NextFine]_vars

\* ============================================================== claims
\* a Decimal in units of 10^-DecMaxScale (an integer, every scale being at
\* most DecMaxScale)
Units(d) == d.m * Pow10(DecMaxScale - d.e)

RECURSIVE TotalQty(_)
TotalQty(levels) ==
    IF levels = <<>> THEN 0 ELSE Units(Head(levels).quantity) + TotalQty(Tail(levels))

Called == ret.kind # "None"
Failed == ret.kind = "Err" /\ ret.err = "NotEnoughLiquidity"
Succeeded == ret.kind = "Ok"
\* the consumed side before and after the last order
Before == OppositeLevels(pre, order.side)
After == OppositeLevels(book, order.side)

\* C1: whenever execute_market_order returns NotEnoughLiquidity, the bids and
\* asks after the call are those before the call.
C1_FailureLeavesBook == Failed => book = pre

\* ---------------------------------------------------------------- C2
StrictlyDescending(levels) ==
    \A i, j \in 1..Len(levels) : i < j => Units(levels[i].price) > Units(levels[j].price)
StrictlyAscending(levels) ==
    \A i, j \in 1..Len(levels) : i < j => Units(levels[i].price) < Units(levels[j].price)
NoDuplicate(levels) ==
    \A i, j \in 1..Len(levels) : i # j => Units(levels[i].price) # Units(levels[j].price)
NotCrossed(b) ==
    (b.bids # <<>> /\ b.asks # <<>>) => Units(b.bids[1].price) < Units(b.asks[1].price)

\* C2: a book returned by parse_order_book has bids strictly descending, asks
\* strictly ascending, no price twice within a side and its first bid below
\* its first ask, and keeps all four through every execute_market_order.
C2_BookStaysValid ==
    (pc = "done" /\ parsed.kind = "Ok") =>
        /\ StrictlyDescending(book.bids)
        /\ StrictlyAscending(book.asks)
        /\ NoDuplicate(book.bids)
        /\ NoDuplicate(book.asks)
        /\ NotCrossed(book)

\* an order was filled against a book with both sides present and left levels
\* on both sides
C2_Witness ==
    /\ Succeeded
    /\ Len(pre.asks) + Len(pre.bids) = MaxLevels
    /\ Len(book.asks) + Len(book.bids) = 2
    /\ book.bids # <<>>
    /\ book.asks # <<>>

\* ---------------------------------------------------------------- C3
\* C3: a successful order of quantity q > 0 returns the quantity
\* min(q, total quantity of the opposite side before the call); a fill below q
\* is Ok and leaves the opposite side empty.
C3_FillIsMin ==
    Succeeded =>
        LET q == Units(order.quantity)
            total == TotalQty(Before)
            filled == Units(position[1].quantity)
        IN  /\ q > 0
            /\ filled = (IF q <= total THEN q ELSE total)
            /\ filled <= q
            /\ (filled < q => After = <<>>)

\* a fill below the requested quantity that took more than one level
C3_Witness ==
    /\ Succeeded
    /\ Units(position[1].quantity) < Units(order.quantity)
    /\ Len(Before) >= 2
    /\ After = <<>>

\* ---------------------------------------------------------------- C4
\* the levels the last order removed from the front of the consumed side
Removed == Len(Before) - Len(After)

\* the quantity the last order took from level i of the consumed side
Taken(i) ==
    IF i <= Removed THEN Before[i].quantity
    ELSE IF i = Removed + 1 THEN DecSub(Before[i].quantity, After[1].quantity)
    ELSE DecZero

\* the sum over levels 1..n of price times quantity taken, and of quantity taken
RECURSIVE ConsumedCost(_)
ConsumedCost(n) ==
    IF n = 0 THEN DecZero
    ELSE DecAdd(ConsumedCost(n - 1), DecMul(Before[n].price, Taken(n)))

RECURSIVE ConsumedQty(_)
ConsumedQty(n) ==
    IF n = 0 THEN DecZero ELSE DecAdd(ConsumedQty(n - 1), Taken(n))

\* entry * filled - cost, in units of 10^-(DecMaxScale + scales of filled and cost)
EntryError(entry, filled, cost) ==
    Units(entry) * filled.m * Pow10(cost.e) - cost.m * Pow10(DecMaxScale + filled.e)

\* C4 as claimed: on success the side is the requested side and entry_price *
\* quantity is the exact cost of the levels consumed.
C4_EntryTimesQuantityIsCost ==
    Succeeded =>
        /\ position[1].side = order.side
        /\ DecEq(position[1].quantity, ConsumedQty(Len(Before)))
        /\ EntryError(position[1].entry_price, position[1].quantity,
                      ConsumedCost(Len(Before))) = 0

\* C4 as amended: on success the side is the requested side, the quantity is
\* the sum of the quantities taken, and entry_price is total_cost / quantity
\* rounded to the nearest Decimal: entry_price * quantity is within half a
\* unit of the last decimal place, times quantity, of the exact cost.
C4_EntryIsRoundedVwap ==
    Succeeded =>
        /\ position[1].side = order.side
        /\ DecEq(position[1].quantity, ConsumedQty(Len(Before)))
        /\ 2 * Abs(EntryError(position[1].entry_price, position[1].quantity,
                              ConsumedCost(Len(Before))))
              <= position[1].quantity.m * Pow10(ConsumedCost(Len(Before)).e)

\* a fill across two levels, the second taken in part, whose average price no
\* Decimal holds
C4_Witness ==
    /\ Succeeded
    /\ Removed >= 1
    /\ After # <<>>
    /\ Units(Taken(Removed + 1)) > 0
    /\ EntryError(position[1].entry_price, position[1].quantity,
                  ConsumedCost(Len(Before))) # 0

\* ---------------------------------------------------------------- C5
\* C5: execute_market_order fails exactly when quantity <= 0 or the opposite
\* side holds a total quantity of zero; every failure is NotEnoughLiquidity
\* with requested = quantity and available = 0; every other call is Ok with a
\* position.
C5_FailsExactlyOnNoFill ==
    Called =>
        LET nofill == Units(order.quantity) <= 0 \/ TotalQty(Before) = 0
        IN  /\ nofill => /\ ret.kind = "Err"
                         /\ ret.err = "NotEnoughLiquidity"
                         /\ ret.a = order.quantity
                         /\ Units(ret.b) = 0
            /\ ~nofill => /\ ret.kind = "Ok"
                          /\ position # <<>>
                          /\ position[1].side = order.side

\* a negative quantity was refused
C5_Witness ==
    /\ Failed
    /\ Units(order.quantity) < 0
    /\ TotalQty(Before) > 0

\* ------------------------------------------------------- C6, C7 inputs
\* the number a token denotes, whatever its length
TokDec(tok) ==
    LET dots == {i \in 1..Len(tok) : tok[i] = "."}
        dot == IF dots = {} THEN Len(tok) + 1 ELSE CHOOSE i \in dots : TRUE
    IN  Dec(DigitsValue(SubSeq(tok, 1, dot - 1) \o SubSeq(tok, dot + 1, Len(tok))),
            Len(tok) - Min({dot, Len(tok)}))

\* the number a token denotes, in units of 10^-(DecMaxScale + 1)
TokUnits(tok) == TokDec(tok).m * Pow10(DecMaxScale + 1 - TokDec(tok).e)

PriceAt(toks, i) == TokUnits(toks[i][1])

AllConvert(in) ==
    \A i \in 1..Len(in.bids \o in.asks) :
        /\ DecFromStrExact((in.bids \o in.asks)[i][1]).ok
        /\ DecFromStrExact((in.bids \o in.asks)[i][2]).ok

\* the pairs of adjacent levels of equal price
EqualPairs(toks) == {i \in 1..(Len(toks) - 1) : PriceAt(toks, i) = PriceAt(toks, i + 1)}

InputDescending(toks) ==
    \A i \in 1..(Len(toks) - 1) : PriceAt(toks, i) > PriceAt(toks, i + 1)
InputAscending(toks) ==
    \A i \in 1..(Len(toks) - 1) : PriceAt(toks, i) < PriceAt(toks, i + 1)
InputNotCrossed(in) ==
    (in.bids # <<>> /\ in.asks # <<>>) => PriceAt(in.bids, 1) < PriceAt(in.asks, 1)

\* parse_order_book failed with DuplicatePrice carrying the price of pair i
DuplicateOf(toks, i) ==
    /\ parsed.kind = "Err"
    /\ parsed.err = "DuplicatePrice"
    /\ Units(parsed.a) * 10 = PriceAt(toks, i)

\* ---------------------------------------------------------------- C6
\* C6 as claimed, on inputs whose numbers all convert: an input with two
\* adjacent levels of equal price on a side fails with DuplicatePrice carrying
\* that price, whatever else is out of order.
C6_AnyEqualPairIsDuplicate ==
    (/\ pc = "done"
     /\ AllConvert(input)
     /\ (EqualPairs(input.bids) # {} \/ EqualPairs(input.asks) # {})) =>
        \/ \E i \in EqualPairs(input.bids) : DuplicateOf(input.bids, i)
        \/ \E i \in EqualPairs(input.asks) : DuplicateOf(input.asks, i)

\* C6 as amended: when every number converts and the first pair out of strict
\* order, scanning the bids and then the asks, is a pair of equal prices,
\* parse_order_book fails with DuplicatePrice carrying that price.
C6_FirstEqualPairIsDuplicate ==
    (pc = "done" /\ AllConvert(input)) =>
        /\ \A i \in EqualPairs(input.bids) :
              InputDescending(SubSeq(input.bids, 1, i)) => DuplicateOf(input.bids, i)
        /\ \A i \in EqualPairs(input.asks) :
              (InputDescending(input.bids) /\ InputAscending(SubSeq(input.asks, 1, i)))
                  => DuplicateOf(input.asks, i)

\* the scan passed sorted bids and a sorted pair of asks before the equal pair
C6_Witness ==
    /\ pc = "done"
    /\ parsed.err = "DuplicatePrice"
    /\ \/ 2 \in EqualPairs(input.asks)
       \/ (input.bids # <<>> /\ EqualPairs(input.asks) # {})

\* ---------------------------------------------------------------- C7
InputValid(in) ==
    /\ InputDescending(in.bids)
    /\ InputAscending(in.asks)
    /\ InputNotCrossed(in)

\* the levels of the input, in input order
RECURSIVE LevelsOf(_)
LevelsOf(toks) ==
    IF toks = <<>> THEN <<>>
    ELSE <<Level(TokDec(Head(toks)[1]), TokDec(Head(toks)[2]))>> \o LevelsOf(Tail(toks))

Returned == pc = "done" /\ ~Called

IsMultiple(x, t) == IF Units(t) = 0 THEN Units(x) = 0 ELSE Units(x) % Units(t) = 0

Complies(level, cfg) ==
    /\ IsMultiple(level.price, cfg.tick_size)
    /\ Units(level.quantity) >= Units(cfg.min_lot)
    /\ IsMultiple(level.quantity, cfg.lot_step)

\* the error of the first rule the level breaks
FirstRuleError(level, cfg) ==
    IF ~IsMultiple(level.price, cfg.tick_size)
    THEN Err("InvalidTickSize", level.price, cfg.tick_size)
    ELSE IF Units(level.quantity) < Units(cfg.min_lot)
    THEN Err("InvalidMinLot", level.quantity, cfg.min_lot)
    ELSE Err("InvalidLotStep", level.quantity, cfg.lot_step)

\* C8: with a config and a structurally valid book, parse_order_book returns
\* Ok exactly when every level complies with tick_size, min_lot and lot_step,
\* and otherwise the error of the first violating level, bids before asks, and
\* of the first rule that level breaks.
C8_FirstRuleViolationReported ==
    (Returned /\ config # <<>> /\ AllConvert(input) /\ InputValid(input)) =>
        LET all_levels == LevelsOf(input.bids) \o LevelsOf(input.asks)
            bad == {i \in 1..Len(all_levels) : ~Complies(all_levels[i], config[1])}
        IN  IF bad = {} THEN parsed.kind = "Ok"
            ELSE parsed = FirstRuleError(all_levels[Min(bad)], config[1])

\* ---------------------------------------------------------------- C9
\* C9: for every input and every config, a zero tick_size or lot_step
\* included, parse_order_book returns a book or an OrderBookError; it never
\* aborts.
C9_ParseNeverAborts == pc = "done" => parsed.kind \in {"Ok", "Err"}

\* --------------------------------------------------------------- C10
\* the value calculate_pnl is to return for the held position on this book
PnlAsClaimed ==
    LET pos == position[1]
        exit == IF pos.side = "Buy" THEN book.bids ELSE book.asks
        gain == IF pos.side = "Buy"
                THEN Units(exit[1].price) - Units(pos.entry_price)
                ELSE Units(pos.entry_price) - Units(exit[1].price)
    IN  /\ pnl.val = <<>> <=> exit = <<>>
        /\ exit # <<>> =>
              Units(pnl.val[1]) * Pow10(pos.quantity.e) = gain * pos.quantity.m

SameSideLevels(b, side) == IF side = "Buy" THEN b.bids ELSE b.asks

\* the first level left holds a strictly positive part of the quantity it had
\* before the call, as level Removed + 1
FirstLeftReduced ==
    /\ 0 < Units(After[1].quantity)
    /\ Units(After[1].quantity) < Units(Before[Removed + 1].quantity)

\* C12: after a successful execute_market_order the consumed side is its
\* pre-call sequence with a prefix of levels removed from the front, at most
\* the new first level reduced in quantity, to a strictly positive remainder,
\* and every later level unchanged; the total quantity removed is the quantity
\* of the position returned; the other side of the book is as before the call.
C12_PrefixConsumed ==
    Succeeded =>
        /\ Removed >= 0
        /\ \A i \in 2..Len(After) : After[i] = Before[Removed + i]
        /\ After # <<>> =>
              /\ After[1].price = Before[Removed + 1].price
              /\ After[1].quantity = Before[Removed + 1].quantity \/ FirstLeftReduced
        /\ TotalQty(Before) - TotalQty(After) = Units(position[1].quantity)
        /\ SameSideLevels(book, order.side) = SameSideLevels(pre, order.side)

\* an order took a level in full and part of the next, and left a level behind
\* it
C12_Witness ==
    /\ Succeeded
    /\ Removed >= 1
    /\ Len(After) >= 2
    /\ FirstLeftReduced

\* --------------------------------------------------------------- C13
\* calculate_pnl ran and returned none or a strictly negative value
PnlNoneOrNegative == pnl.done /\ (pnl.val = <<>> \/ pnl.val[1].m < 0)

\* the levels of both sides of a book
LevelsOfBook(b) ==
    {b.bids[i] : i \in 1..Len(b.bids)} \cup {b.asks[i] : i \in 1..Len(b.asks)}

\* no product of a price of the book the position was opened on and a
\* quantity of that book or of the opening order needs more fractional digits
\* than a Decimal holds
ExactProducts ==
    \A l \in LevelsOfBook(pre) :
        /\ l.price.e + order.quantity.e <= DecMaxScale
        /\ \A k \in LevelsOfBook(pre) : l.price.e + k.quantity.e <= DecMaxScale

\* the book as the order that opened the position left it
OpenedBook == execute_market_order(pre, order.side, order.quantity).book

RECURSIVE Trim(_)
Trim(s) ==
    IF s = <<>> THEN s
    ELSE IF Head(s) \in WHITESPACE THEN Trim(Tail(s))
    ELSE IF s[Len(s)] \in WHITESPACE THEN Trim(SubSeq(s, 1, Len(s) - 1))
    ELSE s

\* digits, or digits "." digits
IsNumber(s) ==
    LET dots == {i \in 1..Len(s) : s[i] = "."}
    IN  /\ s # <<>>
        /\ \A i \in 1..Len(s) : s[i] \in Digits \cup {"."}
        /\ Cardinality(dots) <= 1
        /\ \A i \in dots : 1 < i /\ i < Len(s)

\* a complete level: number "," number
IsLevel(s) ==
    \E c \in 1..Len(s) :
        /\ s[c] = ","
        /\ IsNumber(Trim(SubSeq(s, 1, c - 1)))
        /\ IsNumber(Trim(SubSeq(s, c + 1, Len(s))))

\* the parts of the list between its "|" characters
Pieces(s) ==
    LET cuts == {0, Len(s) + 1} \cup {i \in 1..Len(s) : s[i] = "|"}
        next == {x \in cuts \X cuts :
                    x[1] < x[2] /\ \A k \in cuts : ~(x[1] < k /\ k < x[2])}
    IN  {SubSeq(s, x[1] + 1, x[2] - 1) : x \in next}

\* empty, or complete levels separated by single "|"
WellFormedList(s) == Trim(s) = <<>> \/ \A piece \in Pieces(s) : IsLevel(Trim(piece))

\* the level lists of the text
SemiColon == CHOOSE i \in 1..Len(input) : input[i] = ";"
BidsList == SubSeq(input, Len(BidsIdentifier) + 2, SemiColon - 1)
AsksList == SubSeq(input, SemiColon + Len(AsksIdentifier) + 2, Len(input))

Rejected == parsed.kind = "Err" /\ parsed.err = "ParseError"

\* C11: the grammar accepts a side's level list exactly when it is empty or
\* is complete levels (number "," number) separated by single "|" characters;
\* a level missing its price or quantity and a list with a leading, trailing
\* or doubled "|" are rejected with ParseError.
C11_ListAcceptedIffWellFormed ==
    pc = "done" => (~Rejected <=> (WellFormedList(BidsList) /\ WellFormedList(AsksList)))

====
